---- MODULE Spec2Model ----
(***************************************************************************)
(* A model of package mkfs: the Manifest (a root and a boot tree of Go     *)
(* maps plus metadata keys), its builder operations, and lookupFile, the   *)
(* resolver of host paths through an optional target root.                 *)
(*                                                                         *)
(* Representation.  A Go string that the code splits or joins on '/' is    *)
(* the list of its '/'-separated fields, the value of strings.Split(s,     *)
(* "/"): "/bin/ls" is <<"", "bin", "ls">>, "" is <<"">>, "/" is            *)
(* <<"", "">>.  Joining two strings with a '/' is then the concatenation   *)
(* of the lists.  A Go value held in an interface{} slot is a record       *)
(* [k, v]: k is its dynamic type ("string", "link", "map", "strmap",       *)
(* "slice", "rune"), v its value.  A Go map is a function from its keys;   *)
(* a key that is absent reads as nil.  A pointer to a map inside the       *)
(* Manifest is the list of keys leading to it from the Manifest.           *)
(***************************************************************************)
EXTENDS Naturals, Integers, Sequences, FiniteSets, TLC

\* The number of builder calls made on one Manifest.
MaxOps == 3

-----------------------------------------------------------------------------
(* Strings and paths *)

EmptyStr == <<"">>

\* s[0] == '/'
IsAbs(s) == Len(s) >= 2 /\ s[1] = ""

\* strings.FieldsFunc(s, func(c rune) bool { return c == '/' })
FieldsFunc(s) == SelectSeq(s, LAMBDA x : x # "")

\* strings.Split(s, "/"): the fields of s, the empty ones included.
Split(s) == [i \in 1..Len(s) |-> s[i]]

\* "/" + s
PrefixSlash(s) == <<"">> \o s

\* strings.TrimPrefix(s, p), for a prefix p that ends at a field boundary of s
\* (p's last field is empty or is a whole field of s).
TrimPrefix(s, p) ==
    LET n == Len(p) IN
    IF /\ Len(s) >= n
       /\ \A i \in 1..(n - 1) : s[i] = p[i]
    THEN IF p[n] = "" THEN SubSeq(s, n, Len(s))
         ELSE IF s[n] = p[n] THEN <<"">> \o SubSeq(s, n + 1, Len(s))
         ELSE s
    ELSE s

RECURSIVE CleanFields(_, _, _)
\* The loop of path.Clean over the fields of a path: "." and empty fields are
\* dropped, ".." removes the field before it (at the root it is dropped, at
\* the start of a relative path it is kept).
CleanFields(fields, out, rooted) ==
    IF fields = <<>> THEN out
    ELSE LET f == Head(fields)
             rest == Tail(fields)
         IN  IF f = "" \/ f = "." THEN CleanFields(rest, out, rooted)
             ELSE IF f = ".."
                  THEN IF out # <<>> /\ out[Len(out)] # ".."
                       THEN CleanFields(rest, SubSeq(out, 1, Len(out) - 1), rooted)
                       ELSE IF rooted THEN CleanFields(rest, out, rooted)
                            ELSE CleanFields(rest, Append(out, ".."), rooted)
                  ELSE CleanFields(rest, Append(out, f), rooted)

\* path.Clean(s)
Clean(s) ==
    LET rooted == IsAbs(s)
        out == CleanFields(s, <<>>, rooted)
    IN  IF rooted THEN (IF out = <<>> THEN <<"", "">> ELSE <<"">> \o out)
        ELSE IF out = <<>> THEN <<".">> ELSE out

RECURSIVE DropEmptyLeading(_)
DropEmptyLeading(elems) ==
    IF elems = <<>> THEN <<>>
    ELSE IF Head(elems) = EmptyStr THEN DropEmptyLeading(Tail(elems))
    ELSE elems

RECURSIVE Flatten(_)
Flatten(elems) ==
    IF elems = <<>> THEN <<>> ELSE Head(elems) \o Flatten(Tail(elems))

\* path.Join(elems...) and filepath.Join(elems...): the elements from the first
\* non-empty one on, joined with '/', cleaned; "" when every element is empty.
Join(elems) ==
    LET kept == DropEmptyLeading(elems) IN
    IF kept = <<>> THEN EmptyStr ELSE Clean(Flatten(kept))

\* filepath.Dir(s), for a cleaned path s.
Dir(s) ==
    IF Len(s) <= 1 THEN <<".">>
    ELSE IF Len(s) = 2 /\ s[1] = "" THEN <<"", "">>
    ELSE SubSeq(s, 1, Len(s) - 1)

-----------------------------------------------------------------------------
(* The host file system, as os.Lstat, os.Readlink and os.Stat see it *)

Absent == [k |-> "absent", t |-> <<>>]
RegFile == [k |-> "file", t |-> <<>>]
Denied == [k |-> "denied", t |-> <<>>]
DirOf(names) == [k |-> "dir", t |-> names]
Symlink(target) == [k |-> "symlink", t |-> target]

\* What a path names in the file system fs (a function from paths).
Entry(fs, p) == IF p \in DOMAIN fs THEN fs[p] ELSE Absent

\* os.Lstat(p): the error, "nil" on success.
LstatErr(fs, p) ==
    LET e == Entry(fs, p) IN
    IF e.k = "absent" THEN "ENOENT"
    ELSE IF e.k = "denied" THEN "EACCES"
    ELSE "nil"

RECURSIVE StatFrom(_, _, _)
\* os.Stat(p): the entry p names once symlinks are followed (a relative target
\* is taken from the link's directory), with the error: ENOENT for a dangling
\* link, ELOOP for a cycle of links, EACCES for an entry that cannot be read.
StatFrom(fs, p, seen) ==
    LET e == Entry(fs, p) IN
    IF e.k = "absent" THEN [err |-> "ENOENT", e |-> e]
    ELSE IF e.k = "denied" THEN [err |-> "EACCES", e |-> e]
    ELSE IF e.k # "symlink" THEN [err |-> "nil", e |-> e]
    ELSE IF p \in seen THEN [err |-> "ELOOP", e |-> e]
    ELSE StatFrom(fs,
                  IF IsAbs(e.t) THEN Clean(e.t) ELSE Join(<<Dir(p), e.t>>),
                  seen \cup {p})

Stat(fs, p) == StatFrom(fs, p, {})

\* os.IsNotExist(err)
IsNotExist(err) == err = "ENOENT"

-----------------------------------------------------------------------------
(* lookupFile *)

\* A pass that, at a relative symlink, leaves the loop with the path the link
\* names instead of the path of the link.
LookupIterToTarget(fs, targetRoot, path, cur) ==
    LET targetPath == Join(<<targetRoot, cur>>)
        lerr == LstatErr(fs, targetPath)
        fi == Entry(fs, targetPath)
    IN  IF lerr # "nil"
        THEN IF lerr # "ENOENT"
             THEN [pc |-> "return", path |-> path, err |-> lerr, cur |-> cur]
             ELSE [pc |-> "break", path |-> path, err |-> "nil", cur |-> cur]
        ELSE IF fi.k # "symlink"
        THEN [pc |-> "return", path |-> targetPath, err |-> "nil", cur |-> cur]
        ELSE IF ~IsAbs(fi.t)
        THEN [pc |-> "break", path |-> Join(<<Dir(targetPath), fi.t>>),
              err |-> "nil", cur |-> fi.t]
        ELSE [pc |-> "loop", path |-> path, err |-> "nil", cur |-> fi.t]

\* A pass with a guard: an absolute symlink that names the path it was read
\* at ends the lookup with an error.
LookupIterGuarded(fs, targetRoot, path, cur) ==
    LET targetPath == Join(<<targetRoot, cur>>)
        lerr == LstatErr(fs, targetPath)
        fi == Entry(fs, targetPath)
    IN  IF lerr # "nil"
        THEN IF lerr # "ENOENT"
             THEN [pc |-> "return", path |-> path, err |-> lerr, cur |-> cur]
             ELSE [pc |-> "break", path |-> path, err |-> "nil", cur |-> cur]
        ELSE IF fi.k # "symlink"
        THEN [pc |-> "return", path |-> targetPath, err |-> "nil", cur |-> cur]
        ELSE IF ~IsAbs(fi.t)
        THEN [pc |-> "break", path |-> targetPath, err |-> "nil", cur |-> fi.t]
        ELSE IF fi.t = cur
        THEN [pc |-> "return", path |-> path, err |-> "ELOOP", cur |-> cur]
        ELSE [pc |-> "loop", path |-> path, err |-> "nil", cur |-> fi.t]

\* A pass that, at a path the target root does not hold, leaves the loop with
\* the path it probed last instead of the path asked for.
LookupIterKeepCurrent(fs, targetRoot, path, cur) ==
    LET targetPath == Join(<<targetRoot, cur>>)
        lerr == LstatErr(fs, targetPath)
        fi == Entry(fs, targetPath)
    IN  IF lerr # "nil"
        THEN IF lerr # "ENOENT"
             THEN [pc |-> "return", path |-> path, err |-> lerr, cur |-> cur]
             ELSE [pc |-> "break", path |-> cur, err |-> "nil", cur |-> cur]
        ELSE IF fi.k # "symlink"
        THEN [pc |-> "return", path |-> targetPath, err |-> "nil", cur |-> cur]
        ELSE IF ~IsAbs(fi.t)
        THEN [pc |-> "break", path |-> targetPath, err |-> "nil", cur |-> fi.t]
        ELSE [pc |-> "loop", path |-> path, err |-> "nil", cur |-> fi.t]

\* One pass of the loop of lookupFile, with currentPath = cur.  pc tells how the
\* pass ends: "return" (the function returns path, err), "break" (the loop is
\* left, for the lookup on the host of path), "loop" (the next pass, with cur).
LookupIter(fs, targetRoot, path, cur) ==
    LET targetPath == Join(<<targetRoot, cur>>)
        lerr == LstatErr(fs, targetPath)
        fi == Entry(fs, targetPath)
    IN  IF lerr # "nil"
        THEN IF ~IsNotExist(lerr)
             THEN [pc |-> "return", path |-> path, err |-> lerr, cur |-> cur]
             ELSE [pc |-> "break", path |-> path, err |-> "nil", cur |-> cur]
        ELSE IF fi.k # "symlink"
        THEN [pc |-> "return", path |-> targetPath, err |-> "nil", cur |-> cur]
        ELSE IF ~IsAbs(fi.t)
        THEN [pc |-> "break", path |-> targetPath, err |-> "nil", cur |-> fi.t]
        ELSE [pc |-> "loop", path |-> path, err |-> "nil", cur |-> fi.t]

\* The end of lookupFile: _, err := os.Stat(path); return path, err
LookupHost(fs, path) == [path |-> path, err |-> Stat(fs, path).err]

RECURSIVE LookupLoop(_, _, _, _)
LookupLoop(fs, targetRoot, path, cur) ==
    LET r == LookupIter(fs, targetRoot, path, cur) IN
    IF r.pc = "loop" THEN LookupLoop(fs, targetRoot, path, r.cur)
    ELSE IF r.pc = "break" THEN LookupHost(fs, r.path)
    ELSE [path |-> r.path, err |-> r.err]

\* lookupFile(targetRoot, path), on a file system whose chains of absolute
\* symlinks under targetRoot end.
lookupFile(fs, targetRoot, path) ==
    IF targetRoot # EmptyStr THEN LookupLoop(fs, targetRoot, path, path)
    ELSE LookupHost(fs, path)

-----------------------------------------------------------------------------
(* Go values and maps *)

StringVal(s) == [k |-> "string", v |-> s]
LinkVal(s) == [k |-> "link", v |-> s]
RuneVal(c) == [k |-> "rune", v |-> c]
SliceVal(q) == [k |-> "slice", v |-> q]
StrMapVal(f) == [k |-> "strmap", v |-> f]
MapVal(f) == [k |-> "map", v |-> f]

NoKeys == [x \in {} |-> 0]

\* make(map[string]interface{})
EmptyMap == MapVal(NoKeys)

\* f with f[key] = x
SetKey(f, key, x) == [y \in (DOMAIN f) \cup {key} |-> IF y = key THEN x ELSE f[y]]

IsMap(x) == x.k = "map"

\* reflect.TypeOf(x).Kind() == reflect.String
IsString(x) == x.k = "string"

\* _, ok := node[key]
Has(node, key) == key \in DOMAIN node.v

RECURSIVE Get(_, _)
\* The map reached from the map val by the keys of p.
Get(val, p) == IF p = <<>> THEN val ELSE Get(val.v[Head(p)], Tail(p))

RECURSIVE Put(_, _, _, _)
\* val with key set to x in the map reached by the keys of p.
Put(val, p, key, x) ==
    IF p = <<>> THEN MapVal(SetKey(val.v, key, x))
    ELSE MapVal([val.v EXCEPT ![Head(p)] = Put(val.v[Head(p)], Tail(p), key, x)])

\* The map a pointer p names in the Manifest mm: p starts at "root" or "boot".
Deref(mm, p) == Get(mm[Head(p)], Tail(p))

\* mm after node[key] = x, node the map p names.
Store(mm, p, key, x) == [mm EXCEPT ![Head(p)] = Put(mm[Head(p)], Tail(p), key, x)]

RootPtr == <<"root">>
BootPtr == <<"boot">>

-----------------------------------------------------------------------------
(* The tree primitives.  Each takes the Manifest mm and gives the Manifest  *)
(* after it, with what it returns; panic tells that a type assertion (or an *)
(* index) failed, which ends the call with a Go panic.  A local of the code *)
(* is bound as x \in {e}, so that e is computed once.                       *)

\* The element of a set of one element.
Only(S) == CHOOSE x \in S : TRUE

\* GetChildren(dir): p is the map returned.
GetChildren(mm, dir) ==
    Only({ IF ~Has(d, "children")
           THEN [m |-> Store(mm, dir, "children", EmptyMap),
                 p |-> Append(dir, "children"), panic |-> FALSE]
           ELSE IF ~IsMap(d.v["children"])
           THEN [m |-> mm, p |-> dir, panic |-> TRUE]
           ELSE [m |-> mm, p |-> Append(dir, "children"), panic |-> FALSE] :
           d \in {Deref(mm, dir)} })

\* newDir := make(map[string]interface{}); children[dir] = newDir;
\* GetChildren(newDir); return newDir
MkDirNew(mm, children, dir) ==
    Only({ [m |-> GetChildren(m1, Append(children, dir)).m,
            p |-> Append(children, dir), panic |-> FALSE] :
           m1 \in {Store(mm, children, dir, EmptyMap)} })

\* MkDir(parent, dir): p is the directory returned.
MkDir(mm, parent, dir) ==
    Only({ IF g.panic THEN g
           ELSE Only({ IF Has(children, dir)
                       THEN IF IsMap(children.v[dir])
                            THEN [m |-> g.m, p |-> Append(g.p, dir), panic |-> FALSE]
                            ELSE [m |-> g.m, p |-> parent, panic |-> TRUE]
                       ELSE MkDirNew(g.m, g.p, dir) :
                       children \in {Deref(g.m, g.p)} }) :
           g \in {GetChildren(mm, parent)} })

RECURSIVE MkDirEach(_, _, _)
\* for _, element := range parts { parent = MkDir(parent, element) }
MkDirEach(mm, parent, parts) ==
    IF parts = <<>> THEN [m |-> mm, p |-> parent, panic |-> FALSE]
    ELSE Only({ IF d.panic THEN d ELSE MkDirEach(d.m, d.p, Tail(parts)) :
                d \in {MkDir(mm, parent, Head(parts))} })

\* MkDirPath(parent, path)
MkDirPath(mm, parent, path) == MkDirEach(mm, parent, Split(path))

RECURSIVE WalkParents(_, _, _)
\* The loop of AddFileTo and of AddLink over parts[0 .. len(parts)-2]: a
\* missing entry becomes an empty map, and node moves to the entry itself.
WalkParents(mm, node, parts) ==
    IF Len(parts) <= 1 THEN [m |-> mm, p |-> node, panic |-> FALSE]
    ELSE Only({ IF ~IsMap(Deref(m1, node).v[Head(parts)])
                THEN [m |-> m1, p |-> node, panic |-> TRUE]
                ELSE WalkParents(m1, Append(node, Head(parts)), Tail(parts)) :
                m1 \in {IF Has(Deref(mm, node), Head(parts)) THEN mm
                        ELSE Store(mm, node, Head(parts), EmptyMap)} })

\* What pathtest holds, as the checks of AddFileTo and AddLink tell it apart:
\* nil, a string equal to hostpath, another string, or a value that is no string.
PathTest(node, key, hostpath) ==
    IF ~Has(node, key) THEN "nil"
    ELSE IF ~IsString(node.v[key]) THEN "notstring"
    ELSE IF node.v[key].v = hostpath THEN "same"
    ELSE "other"

\* What a call gives: the Manifest after it, how it ended ("ok": it returned,
\* with a nil error if it returns one; "error": it returned an error; "exit":
\* os.Exit(1); "panic"), what it printed, and what pathtest held.
Result(mm, res, out, pre) == [m |-> mm, res |-> res, out |-> out, pre |-> pre]

\* fmt.Printf("warning: overwriting existing file ...") when pathtest is a
\* string other than hostpath.
OverwriteWarning(pre) == IF pre = "other" THEN <<"warning: overwriting">> ELSE <<>>

\* AddFileTo from pathtest on: mm and node are the Manifest and the map the
\* loop ended at, key the last part.
AddFileAt(mm, fs, node, key, hostpath) ==
    Only({ IF pre = "notstring"
           THEN Result(mm, "exit", <<"overriding an existing directory">>, pre)
           ELSE Only({ IF err # "nil"
                       THEN IF IsNotExist(err)
                            THEN Result(mm, "exit",
                                        Append(OverwriteWarning(pre), "missing file"), pre)
                            ELSE Result(mm, "error", OverwriteWarning(pre), pre)
                       ELSE Result(Store(mm, node, key, StringVal(hostpath)), "ok",
                                   OverwriteWarning(pre), pre) :
                       err \in {lookupFile(fs, mm.targetRoot, hostpath).err} }) :
           pre \in {PathTest(Deref(mm, node), key, hostpath)} })

\* m.AddFileTo(dir, filepath, hostpath)
AddFileTo(mm, fs, dir, filepath, hostpath) ==
    Only({ IF g.panic THEN Result(g.m, "panic", <<>>, "nil")
           ELSE Only({ IF w.panic \/ parts = <<>> THEN Result(w.m, "panic", <<>>, "nil")
                       ELSE AddFileAt(w.m, fs, w.p, parts[Len(parts)], hostpath) :
                       w \in {WalkParents(g.m, g.p, parts)} }) :
           g \in {GetChildren(mm, dir)}, parts \in {FieldsFunc(filepath)} })

\* m.AddFile(filepath, hostpath)
AddFile(mm, fs, filepath, hostpath) == AddFileTo(mm, fs, RootPtr, filepath, hostpath)

\* AddLink from pathtest on: mm and node are the Manifest and the map the loop
\* ended at, key the last part.
AddLinkAt(mm, fs, node, key, hostpath) ==
    Only({ IF pre = "notstring"
           THEN Result(mm, "error", <<"overriding an existing directory">>, pre)
           ELSE Only({ IF err # "nil"
                       THEN IF IsNotExist(err)
                            THEN Result(mm, "exit",
                                        Append(OverwriteWarning(pre), "missing file"), pre)
                            ELSE Result(mm, "error", OverwriteWarning(pre), pre)
                       ELSE IF Entry(fs, hostpath).k # "symlink"
                       THEN Result(mm, "exit", Append(OverwriteWarning(pre), "bad link"), pre)
                       ELSE Result(Store(mm, node, key, LinkVal(Entry(fs, hostpath).t)),
                                   "ok", OverwriteWarning(pre), pre) :
                       err \in {lookupFile(fs, mm.targetRoot, hostpath).err} }) :
           pre \in {PathTest(Deref(mm, node), key, hostpath)} })

\* m.AddLink(filepath, hostpath)
AddLink(mm, fs, filepath, hostpath) ==
    Only({ IF g.panic THEN Result(g.m, "panic", <<>>, "nil")
           ELSE Only({ IF w.panic \/ parts = <<>> THEN Result(w.m, "panic", <<>>, "nil")
                       ELSE AddLinkAt(w.m, fs, w.p, parts[Len(parts)], hostpath) :
                       w \in {WalkParents(g.m, g.p, parts)} }) :
           g \in {GetChildren(mm, RootPtr)}, parts \in {FieldsFunc(filepath)} })

RECURSIVE MkDirParents(_, _, _)
\* The loop of AddLibrary: parent = MkDir(parent, parts[i]) for all parts but
\* the last.
MkDirParents(mm, parent, parts) ==
    IF Len(parts) <= 1 THEN [m |-> mm, p |-> parent, panic |-> FALSE]
    ELSE Only({ IF d.panic THEN d ELSE MkDirParents(d.m, d.p, Tail(parts)) :
                d \in {MkDir(mm, parent, Head(parts))} })

\* A call whose caller drops the error it returns: the caller goes on as
\* after a nil error.
DropError(r) == IF r.res = "error" THEN [r EXCEPT !.res = "ok"] ELSE r

\* An AddLibrary that inserts the library as AddFile does, by the keys of the
\* directories, without MkDir.
AddLibraryByKeys(mm, fs, path) ==
    Only({ DropError(r) : r \in {AddFile(mm, fs, path, path)} })

\* m.AddLibrary(path): the error AddFileTo returns is dropped.
AddLibrary(mm, fs, path) ==
    Only({ IF d.panic \/ parts = <<>> THEN Result(d.m, "panic", <<>>, "nil")
           ELSE Only({ DropError(r) :
                       r \in {AddFileTo(d.m, fs, d.p, <<parts[Len(parts)]>>, path)} }) :
           parts \in {FieldsFunc(path)},
           d \in {MkDirParents(mm, RootPtr, FieldsFunc(path))} })

-----------------------------------------------------------------------------
(* The builder operations on the metadata keys of m.root and on m.boot *)

\* m.AddNetworkConfig(networkConfig)
AddNetworkConfig(mm, ip, netmask, gateway) ==
    Only({ Result(Store(m2, RootPtr, "gateway", StringVal(gateway)), "ok", <<>>, "nil") :
           m2 \in {Store(Store(mm, RootPtr, "ipaddr", StringVal(ip)),
                         RootPtr, "netmask", StringVal(netmask))} })

\* m.AddUserProgram(imgpath): the virtual path of the program.
ProgramPath(imgpath) ==
    Only({ Join(<<PrefixSlash(EmptyStr), Join([i \in 1..Len(parts) |-> <<parts[i]>>])>>) :
           parts \in {IF Split(imgpath)[1] = "." THEN Tail(Split(imgpath))
                      ELSE Split(imgpath)} })

\* An AddUserProgram that records imgpath as it was given.
AddUserProgramAsGiven(mm, fs, imgpath) ==
    Only({ IF r.res = "error" THEN [r EXCEPT !.res = "panic"]
           ELSE IF r.res # "ok" THEN r
           ELSE [r EXCEPT !.m = Store(r.m, RootPtr, "program", StringVal(imgpath))] :
           r \in {AddFile(mm, fs, ProgramPath(imgpath), imgpath)} })

\* m.AddUserProgram(imgpath)
AddUserProgram(mm, fs, imgpath) ==
    Only({ IF r.res = "error" THEN [r EXCEPT !.res = "panic"]
           ELSE IF r.res # "ok" THEN r
           ELSE [r EXCEPT !.m = Store(r.m, RootPtr, "program", StringVal(program))] :
           r \in {AddFile(mm, fs, ProgramPath(imgpath), imgpath)},
           program \in {ProgramPath(imgpath)} })

\* The value at key of m.root, made by make when the key is nil.
Ensure(mm, key, made) ==
    IF Has(mm.root, key) THEN mm ELSE Store(mm, RootPtr, key, made)

\* AddMount after MkDirPath: mounts[label] = path
SetMount(mm, label, path) ==
    Only({ IF m1.root.v["mounts"].k # "strmap" THEN Result(m1, "panic", <<>>, "nil")
           ELSE Result(Store(m1, RootPtr, "mounts",
                             StrMapVal(SetKey(m1.root.v["mounts"].v, label, path))),
                       "ok", <<>>, "nil") :
           m1 \in {Ensure(mm, "mounts", StrMapVal(NoKeys))} })

\* m.AddMount(label, path)
AddMount(mm, label, path) ==
    Only({ IF d.panic THEN Result(d.m, "panic", <<>>, "nil")
           ELSE SetMount(d.m, label, path) :
           d \in {MkDirPath(mm, RootPtr, TrimPrefix(path, PrefixSlash(EmptyStr)))} })

\* An AddEnvironmentVariable that keeps the value a name already has.
AddEnvironmentVariableKeepFirst(mm, name, value) ==
    Only({ IF m1.root.v["environment"].k # "strmap" THEN Result(m1, "panic", <<>>, "nil")
           ELSE IF name \in DOMAIN m1.root.v["environment"].v
           THEN Result(m1, "ok", <<>>, "nil")
           ELSE Result(Store(m1, RootPtr, "environment",
                             StrMapVal(SetKey(m1.root.v["environment"].v, name, value))),
                       "ok", <<>>, "nil") :
           m1 \in {Ensure(mm, "environment", StrMapVal(NoKeys))} })

\* m.AddEnvironmentVariable(name, value)
AddEnvironmentVariable(mm, name, value) ==
    Only({ IF m1.root.v["environment"].k # "strmap" THEN Result(m1, "panic", <<>>, "nil")
           ELSE Result(Store(m1, RootPtr, "environment",
                             StrMapVal(SetKey(m1.root.v["environment"].v, name, value))),
                       "ok", <<>>, "nil") :
           m1 \in {Ensure(mm, "environment", StrMapVal(NoKeys))} })

\* make([]string, 1)
MakeSlice1 == SliceVal(<<"">>)

\* The body that AddArgument and AddNoTrace share, on the key they append to.
AppendTo(mm, key, x) ==
    Only({ IF m1.root.v[key].k # "slice" THEN Result(m1, "panic", <<>>, "nil")
           ELSE Result(Store(m1, RootPtr, key, SliceVal(Append(m1.root.v[key].v, x))),
                       "ok", <<>>, "nil") :
           m1 \in {Ensure(mm, key, MakeSlice1)} })

\* m.AddArgument(arg)
AddArgument(mm, arg) == AppendTo(mm, "arguments", arg)

\* m.AddNoTrace(name)
AddNoTrace(mm, name) == AppendTo(mm, "notrace", name)

\* m.AddDebugFlag(name, value)
AddDebugFlag(mm, name, value) ==
    Result(Store(mm, RootPtr, name, RuneVal(value)), "ok", <<>>, "nil")

\* An AddKernel that inserts the kernel under the root.
AddKernelInRoot(mm, fs, path) ==
    Only({ DropError(r) : r \in {AddFileTo(mm, fs, RootPtr, <<"kernel">>, path)} })

\* m.AddKernel(path): the error AddFileTo returns is dropped.
AddKernel(mm, fs, path) ==
    Only({ DropError(r) : r \in {AddFileTo(mm, fs, BootPtr, <<"kernel">>, path)} })

RECURSIVE AddKlibFiles(_, _, _, _, _, _)
\* for _, klib := range klibs { m.AddFileTo(klibDir, klib, hostDir) }
AddKlibFiles(mm, fs, klibDir, klibs, hostDir, out) ==
    IF klibs = <<>> THEN Result(mm, "ok", out, "nil")
    ELSE Only({ IF r.res \in {"exit", "panic"} THEN [r EXCEPT !.out = out \o r.out]
                ELSE AddKlibFiles(r.m, fs, klibDir, Tail(klibs), hostDir, out \o r.out) :
                r \in {AddFileTo(mm, fs, klibDir, Head(klibs), hostDir)} })

\* m.AddKlibs(klibs, hostDir)
AddKlibs(mm, fs, klibs, hostDir) ==
    Only({ IF d.panic THEN Result(d.m, "panic", <<>>, "nil")
           ELSE Only({ IF r.res # "ok" THEN r
                       ELSE [r EXCEPT !.m = Store(r.m, RootPtr, "klibs",
                                                  StringVal(<<"bootfs">>))] :
                       r \in {AddKlibFiles(d.m, fs, d.p, klibs, hostDir, <<>>)} }) :
           d \in {MkDir(mm, BootPtr, "klib")} })

RECURSIVE FileExistsWalk(_, _)
\* The loop of FileExists: "absent" when a segment is missing (return false),
\* "panic" when one is no map, else the map node ends at.
FileExistsWalk(node, parts) ==
    IF Len(parts) <= 1 THEN [st |-> "at", node |-> node]
    ELSE IF ~Has(node, Head(parts)) THEN [st |-> "absent", node |-> node]
    ELSE IF ~IsMap(node.v[Head(parts)]) THEN [st |-> "panic", node |-> node]
    ELSE FileExistsWalk(node.v[Head(parts)], Tail(parts))

\* m.FileExists(filepath): val is the boolean returned.
FileExists(mm, filepath) ==
    Only({ IF g.panic THEN [m |-> g.m, res |-> "panic", val |-> FALSE]
           ELSE Only({ IF w.st = "absent" THEN [m |-> g.m, res |-> "ok", val |-> FALSE]
                       ELSE IF w.st = "panic" \/ parts = <<>>
                       THEN [m |-> g.m, res |-> "panic", val |-> FALSE]
                       ELSE [m |-> g.m, res |-> "ok",
                             val |-> /\ Has(w.node, parts[Len(parts)])
                                     /\ IsString(w.node.v[parts[Len(parts)]])] :
                       w \in {FileExistsWalk(Deref(g.m, g.p), parts)} }) :
           g \in {GetChildren(mm, RootPtr)}, parts \in {FieldsFunc(filepath)} })

-----------------------------------------------------------------------------
(* The directory walkers *)

RECURSIVE WalkOrder(_, _)
RECURSIVE WalkNames(_, _, _)
\* The host paths filepath.Walk(root, fn) hands to fn, in its order: a path,
\* then, for a directory, what it holds, name by name (sorted).
WalkOrder(fs, hostpath) ==
    IF Entry(fs, hostpath).k = "dir"
    THEN <<hostpath>> \o WalkNames(fs, hostpath, Entry(fs, hostpath).t)
    ELSE <<hostpath>>
WalkNames(fs, dirpath, names) ==
    IF names = <<>> THEN <<>>
    ELSE WalkOrder(fs, Join(<<dirpath, <<Head(names)>>>>))
         \o WalkNames(fs, dirpath, Tail(names))

RECURSIVE WalkDirParts(_, _, _)
\* The loop of the walker's callback for a directory: every part of vmpath
\* that is missing becomes an empty map; a part that is a string is the
\* conflict; node moves to the part itself.
WalkDirParts(mm, node, parts) ==
    IF parts = <<>> THEN Result(mm, "ok", <<>>, "nil")
    ELSE Only({ IF IsString(Deref(m1, node).v[Head(parts)])
                THEN Result(m1, "error", <<"conflicting with an existing file">>, "nil")
                ELSE IF ~IsMap(Deref(m1, node).v[Head(parts)])
                THEN Result(m1, "panic", <<>>, "nil")
                ELSE WalkDirParts(m1, Append(node, Head(parts)), Tail(parts)) :
                m1 \in {IF Has(Deref(mm, node), Head(parts)) THEN mm
                        ELSE Store(mm, node, Head(parts), EmptyMap)} })

\* The callback of AddDirectory and of AddRelativeDirectory, on the entry at
\* hostpath, mapped to vmpath.
WalkFn(mm, fs, hostpath, vmpath) ==
    IF LstatErr(fs, hostpath) # "nil" THEN Result(mm, "error", <<>>, "nil")
    ELSE IF Entry(fs, hostpath).k = "symlink"
    THEN IF Stat(fs, hostpath).err # "nil"
         THEN Result(mm, "ok", <<"warning: invalid symlink">>, "nil")
         ELSE AddLink(mm, fs, vmpath, hostpath)
    ELSE IF Entry(fs, hostpath).k = "dir"
    THEN Only({ IF g.panic THEN Result(g.m, "panic", <<>>, "nil")
                ELSE WalkDirParts(g.m, g.p, FieldsFunc(vmpath)) :
                g \in {GetChildren(mm, RootPtr)} })
    ELSE AddFile(mm, fs, vmpath, hostpath)

\* vmpath in AddDirectory
VmPathAbs(hostpath) == IF ~IsAbs(hostpath) THEN PrefixSlash(hostpath) ELSE hostpath

\* vmpath in AddRelativeDirectory
VmPathRel(hostpath, src) == PrefixSlash(TrimPrefix(hostpath, src))

RECURSIVE WalkAll(_, _, _, _, _, _)
\* filepath.Walk over the paths of order: it ends at the first entry whose
\* callback gives an error, and returns that error.
WalkAll(mm, fs, order, rel, src, out) ==
    IF order = <<>> THEN Result(mm, "ok", out, "nil")
    ELSE Only({ IF r.res # "ok" THEN [r EXCEPT !.out = out \o r.out, !.pre = "nil"]
                ELSE WalkAll(r.m, fs, Tail(order), rel, src, out \o r.out) :
                r \in {WalkFn(mm, fs, Head(order),
                              IF rel THEN VmPathRel(Head(order), src)
                              ELSE VmPathAbs(Head(order)))} })

\* m.AddDirectory(dir)
AddDirectory(mm, fs, dir) ==
    Only({ WalkAll(mm, fs, order, FALSE, dir, <<>>) : order \in {WalkOrder(fs, dir)} })

\* m.AddRelativeDirectory(src)
AddRelativeDirectory(mm, fs, src) ==
    Only({ WalkAll(mm, fs, order, TRUE, src, <<>>) : order \in {WalkOrder(fs, src)} })

-----------------------------------------------------------------------------
(* The host the Manifest is built on, and the arguments of the calls *)

BinLs == <<"", "bin", "ls">>
BinSh == <<"", "bin", "sh">>
BinDash == <<"", "bin", "dash">>
LibC == <<"", "lib", "x86", "libc">>
LibX86 == <<"", "lib", "x86">>
Lib == <<"", "lib">>
DotApp == <<".", "app">>
App == <<"", "app">>
Secret == <<"", "secret">>
Missing == <<"", "missing">>
Data == <<"", "data">>
DataSub == <<"", "data", "sub">>
DataF == <<"", "data", "f">>
DataL == <<"", "data", "l">>
DataBad == <<"", "data", "bad">>
KlibDir == <<"", "klib">>
Stage == <<"", "stage">>

\* A host with regular files, a relative and an absolute symlink, an entry that
\* cannot be read, a directory to walk (a dangling link, a file, a link, a
\* directory), and a staged root /stage in which /lib/x86/libc is an absolute
\* symlink to /bin/ls and /missing is a file the host does not have.
HostFS ==
    (BinLs :> RegFile) @@ (BinSh :> Symlink(<<"ls">>)) @@ (BinDash :> Symlink(BinLs))
    @@ (LibC :> RegFile) @@ (DotApp :> RegFile) @@ (Secret :> Denied)
    @@ (KlibDir :> DirOf(<<>>))
    @@ (Data :> DirOf(<<"bad", "f", "l", "sub">>))
    @@ (DataBad :> Symlink(<<"gone">>)) @@ (DataF :> RegFile)
    @@ (DataL :> Symlink(<<"f">>)) @@ (DataSub :> DirOf(<<>>))
    @@ (Join(<<Stage, LibC>>) :> Symlink(BinLs)) @@ (Join(<<Stage, BinLs>>) :> RegFile)
    @@ (Join(<<Stage, Missing>>) :> RegFile)

TargetRoots == {EmptyStr, Stage}
FilePaths == {Lib, LibX86, DataSub}
FileSources == {BinLs, BinSh, Secret, Missing}
LinkPaths == {LibX86, DataSub, App}
LinkSources == {BinSh, BinDash, BinLs}
LibraryPaths == {LibC, BinLs, Secret, Missing}
MountLabels == {"vol1", "vol2"}
MountPaths == {LibX86, DataSub}
ProgramPaths == {BinLs, DotApp, Missing}
WalkRoots == {Data}
KlibLists == {<<<<"tls">>, <<"net">>>>}
KlibSources == {KlibDir, Secret}
KernelPaths == {BinLs, Secret}
EnvNames == {"var1", "var2"}
EnvValues == {"value1", "value2"}
Arguments == {"first", "second"}
FlagNames == {"trace", "children", "arguments"}
FlagValues == {"t"}
LibChildren == <<"", "lib", "children", "x86", "children", "libc">>
QueryPaths == {LibX86, LibC, DataSub, LibChildren}

-----------------------------------------------------------------------------
(* MkfsCommand.SetFileSystemSize.  A Go string is here the sequence of its
   runes.  An int64 is its 64 bits, as four digits of base 2^16, the lowest
   first; a natural number of any size is the sequence of its digits of base
   2^16, the lowest first, without leading zeros. *)

Base == 65536
HalfBase == 32768

AsciiDigits == <<"0", "1", "2", "3", "4", "5", "6", "7", "8", "9">>
\* U+0663, ARABIC-INDIC DIGIT THREE: a number for unicode.IsNumber, no digit
\* for strconv.ParseInt.
ArabicThree == "U+0663"
\* U+212A, KELVIN SIGN: its lower case is the letter k.
KelvinSign == "U+212A"

\* unicode.IsNumber(c)
IsNumber(c) == c = ArabicThree \/ \E i \in 1..10 : AsciiDigits[i] = c

\* The value of the decimal digit c.
DigitValue(c) == (CHOOSE i \in 1..10 : AsciiDigits[i] = c) - 1

\* strings.IndexFunc(size, f) with f the runes that are no number: the index,
\* from 0, of the first such rune, -1 when there is none.
IndexFunc(size) ==
    IF \A i \in 1..Len(size) : IsNumber(size[i]) THEN -1
    ELSE (CHOOSE i \in 1..Len(size) :
             /\ ~IsNumber(size[i])
             /\ \A j \in 1..(i - 1) : IsNumber(size[j])) - 1

\* unicode.ToLower(c)
ToLowerRune(c) ==
    IF c \in {"K", KelvinSign} THEN "k"
    ELSE IF c = "M" THEN "m"
    ELSE IF c = "G" THEN "g"
    ELSE IF c = "B" THEN "b"
    ELSE c

\* strings.ToLower(s)
ToLower(s) == [i \in 1..Len(s) |-> ToLowerRune(s[i])]

RECURSIVE MulCarry(_, _, _)
\* b * k + carry, for a natural number b and k, carry below 2^15.
MulCarry(b, k, carry) ==
    IF b = <<>> THEN (IF carry = 0 THEN <<>> ELSE <<carry>>)
    ELSE Only({ <<t % Base>> \o MulCarry(Tail(b), k, t \div Base) :
                t \in {b[1] * k + carry} })

RECURSIVE NatOfDigits(_, _)
\* The natural number that the decimal digits q continue from acc.
NatOfDigits(q, acc) ==
    IF q = <<>> THEN acc
    ELSE Only({ NatOfDigits(Tail(q), a) :
                a \in {MulCarry(acc, 10, DigitValue(Head(q)))} })

\* The low 64 bits of the natural number b.
Int64Of(b) == [i \in 1..4 |-> IF i <= Len(b) THEN b[i] ELSE 0]

\* b is at most 1<<63 - 1.
FitsInt64(b) == Len(b) < 4 \/ (Len(b) = 4 /\ b[4] < HalfBase)

\* 1<<63 - 1
MaxInt64 == <<Base - 1, Base - 1, Base - 1, HalfBase - 1>>
ZeroInt64 == <<0, 0, 0, 0>>

\* strconv.ParseInt(s, 10, 64), for s made of runes that unicode.IsNumber
\* takes: a syntax error for the empty string and for a rune that is no
\* decimal digit, a range error (with the largest int64) above 1<<63 - 1.
ParseInt(s) ==
    IF s = <<>> \/ \E i \in 1..Len(s) : s[i] = ArabicThree
    THEN [val |-> ZeroInt64, err |-> "ErrSyntax"]
    ELSE Only({ IF FitsInt64(n) THEN [val |-> Int64Of(n), err |-> "nil"]
                ELSE [val |-> MaxInt64, err |-> "ErrRange"] :
                n \in {NatOfDigits(s, <<>>)} })

RECURSIVE Times1024(_, _)
\* b * 1024^j
Times1024(b, j) ==
    IF j = 0 THEN b
    ELSE Only({ Times1024(c, j - 1) : c \in {MulCarry(b, 1024, 0)} })

\* The natural number whose digits are the bits of the int64 x, without
\* the leading zeros.
RECURSIVE NatOfBits(_)
NatOfBits(x) ==
    IF x = <<>> THEN <<>>
    ELSE IF x[Len(x)] = 0 THEN NatOfBits(SubSeq(x, 1, Len(x) - 1))
    ELSE x

\* m.size *= mul, for mul = 1024^j: the low 64 bits of the product.
MulInt64(x, j) == Int64Of(Times1024(NatOfBits(x), j))

\* The j with mul = 1024^j for the units k, m and g, -1 for any other.
UnitsPower(units) ==
    IF units = <<"k">> THEN 1
    ELSE IF units = <<"m">> THEN 2
    ELSE IF units = <<"g">> THEN 3
    ELSE -1

\* The end of SetFileSystemSize, from strconv.ParseInt on, with mul = 1024^j.
ParseAndScale(digits, j) ==
    Only({ IF r.err # "nil" THEN [size |-> r.val, res |-> "error", err |-> r.err]
           ELSE [size |-> MulInt64(r.val, j), res |-> "ok", err |-> "nil"] :
           r \in {ParseInt(digits)} })

\* m.SetFileSystemSize(size), for m.size = old
SetFileSystemSize(old, size) ==
    Only({ IF unitsIndex < 0 THEN ParseAndScale(size, 0)
           ELSE IF unitsIndex = 0
           THEN [size |-> old, res |-> "error", err |-> "invalid size"]
           ELSE IF UnitsPower(ToLower(SubSeq(size, unitsIndex + 1, Len(size)))) < 0
           THEN [size |-> old, res |-> "error", err |-> "invalid units"]
           ELSE ParseAndScale(SubSeq(size, 1, unitsIndex),
                              UnitsPower(ToLower(SubSeq(size, unitsIndex + 1, Len(size))))) :
           unitsIndex \in {IndexFunc(size)} })

\* The numbers and the suffixes of the size strings.
SizeNumbers ==
    { <<>>, <<"0">>, <<"7">>, <<"1", "0">>, <<"0", "1", "0">>,
      <<"1", ArabicThree>>,
      <<"8", "5", "8", "9", "9", "3", "4", "5", "9", "1">>,
      <<"8", "5", "8", "9", "9", "3", "4", "5", "9", "2">>,
      <<"1", "7", "1", "7", "9", "8", "6", "9", "1", "8", "4">>,
      <<"9", "2", "2", "3", "3", "7", "2", "0", "3", "6",
        "8", "5", "4", "7", "7", "5", "8", "0", "7">>,
      <<"9", "2", "2", "3", "3", "7", "2", "0", "3", "6",
        "8", "5", "4", "7", "7", "5", "8", "0", "8">> }
SizeSuffixes ==
    { <<>>, <<"k">>, <<"K">>, <<"m">>, <<"M">>, <<"g">>, <<"G">>,
      <<"x">>, <<"K", "B">>, <<"k", "1">>, <<" ">>, <<KelvinSign>>,
      <<"a", "b", "c">>, <<"-", "1">> }
SizeStrings == {n \o u : n \in SizeNumbers, u \in SizeSuffixes}

-----------------------------------------------------------------------------
(* The state *)

VARIABLES
    m,      \* the Manifest: root, boot, targetRoot
    fs,     \* the host file system
    last,   \* the last call on m: its name, arguments and outcome
    nops,   \* the number of calls made on m
    lk,     \* a call of lookupFile in progress: its locals and its result
    cmd     \* the MkfsCommand: its size, and the last SetFileSystemSize on it

vars == <<m, fs, last, nops, lk, cmd>>

\* NewManifest(targetRoot)
NewManifest(targetRoot) ==
    [root |-> EmptyMap, boot |-> EmptyMap, targetRoot |-> targetRoot]

NoCall ==
    [op |-> "NewManifest", res |-> "ok", out |-> <<>>, pre |-> "nil", val |-> FALSE,
     vp |-> <<>>, hp |-> <<>>, name |-> "", value |-> ""]

LkIdle == [pc |-> "idle", targetRoot |-> EmptyStr, req |-> EmptyStr,
           path |-> EmptyStr, cur |-> EmptyStr, err |-> "nil"]

\* NewMkfsCommand(m): size 0; no SetFileSystemSize was called on it.
NewMkfsCommand ==
    [size |-> ZeroInt64, arg |-> <<>>, res |-> "new", err |-> "nil", old |-> ZeroInt64]

Init ==
    /\ \E t \in TargetRoots : m = NewManifest(t)
    /\ fs = HostFS
    /\ last = NoCall
    /\ nops = 0
    /\ lk = LkIdle
    /\ cmd = NewMkfsCommand

\* The process is running (no os.Exit, no panic) and may make another call.
Running == last.res \notin {"exit", "panic"} /\ nops < MaxOps

\* The state after a call op that gave r.
Called(op, result, vp, hp, name, value) ==
    \E r \in {result} :
        /\ m' = r.m
        /\ last' = [op |-> op, res |-> r.res, out |-> r.out, pre |-> r.pre,
                    val |-> FALSE, vp |-> vp, hp |-> hp, name |-> name, value |-> value]
        /\ nops' = nops + 1
        /\ UNCHANGED <<fs, lk, cmd>>

CallAddFile ==
    /\ Running
    /\ \E vp \in FilePaths, hp \in FileSources :
          Called("AddFile", AddFile(m, fs, vp, hp), vp, hp, "", "")

CallAddLink ==
    /\ Running
    /\ \E vp \in LinkPaths, hp \in LinkSources :
          Called("AddLink", AddLink(m, fs, vp, hp), vp, hp, "", "")

CallAddLibrary ==
    /\ Running
    /\ \E hp \in LibraryPaths :
          Called("AddLibrary", AddLibrary(m, fs, hp), hp, hp, "", "")

CallAddUserProgram ==
    /\ Running
    /\ \E hp \in ProgramPaths :
          Called("AddUserProgram", AddUserProgram(m, fs, hp), ProgramPath(hp), hp, "", "")

CallAddMount ==
    /\ Running
    /\ \E label \in MountLabels, vp \in MountPaths :
          Called("AddMount", AddMount(m, label, vp), vp, <<>>, label, "")

CallAddDirectory ==
    /\ Running
    /\ \E dir \in WalkRoots :
          Called("AddDirectory", AddDirectory(m, fs, dir), <<>>, dir, "", "")

CallAddRelativeDirectory ==
    /\ Running
    /\ \E src \in WalkRoots :
          Called("AddRelativeDirectory", AddRelativeDirectory(m, fs, src), <<>>, src, "", "")

CallAddKlibs ==
    /\ Running
    /\ \E klibs \in KlibLists, hostDir \in KlibSources :
          Called("AddKlibs", AddKlibs(m, fs, klibs, hostDir), Flatten(klibs), hostDir, "", "")

CallAddKernel ==
    /\ Running
    /\ \E hp \in KernelPaths :
          Called("AddKernel", AddKernel(m, fs, hp), <<"kernel">>, hp, "", "")

CallAddEnvironmentVariable ==
    /\ Running
    /\ \E name \in EnvNames, value \in EnvValues :
          Called("AddEnvironmentVariable", AddEnvironmentVariable(m, name, value),
                 <<>>, <<>>, name, value)

CallAddArgument ==
    /\ Running
    /\ \E arg \in Arguments :
          Called("AddArgument", AddArgument(m, arg), <<>>, <<>>, "", arg)

CallAddNoTrace ==
    /\ Running
    /\ \E name \in Arguments :
          Called("AddNoTrace", AddNoTrace(m, name), <<>>, <<>>, "", name)

CallAddDebugFlag ==
    /\ Running
    /\ \E name \in FlagNames, value \in FlagValues :
          Called("AddDebugFlag", AddDebugFlag(m, name, value), <<>>, <<>>, name, value)

CallAddNetworkConfig ==
    /\ Running
    /\ Called("AddNetworkConfig",
              AddNetworkConfig(m, <<"10.0.0.2">>, <<"255.255.255.0">>, <<"10.0.0.1">>),
              <<>>, <<>>, "", "")

CallFileExists ==
    /\ Running
    /\ \E vp \in QueryPaths :
          \E r \in {FileExists(m, vp)} :
          /\ m' = r.m
          /\ last' = [op |-> "FileExists", res |-> r.res, out |-> <<>>, pre |-> "nil",
                      val |-> r.val, vp |-> vp, hp |-> <<>>, name |-> "", value |-> ""]
          /\ nops' = nops + 1
          /\ UNCHANGED <<fs, lk, cmd>>

Next ==
    \/ CallAddFile
    \/ CallAddLink
    \/ CallAddLibrary
    \/ CallAddUserProgram
    \/ CallAddMount
    \/ CallAddDirectory
    \/ CallAddRelativeDirectory
    \/ CallAddKlibs
    \/ CallAddKernel
    \/ CallAddEnvironmentVariable
    \/ CallAddArgument
    \/ CallAddNoTrace
    \/ CallAddDebugFlag
    \/ CallAddNetworkConfig
    \/ CallFileExists

Spec == Init /\ [][Next]_vars

-----------------------------------------------------------------------------
(* lookupFile, pass by pass, on the hosts of LookupWorlds *)

PathA == <<"", "a">>
PathB == <<"", "b">>
LookupPaths == {PathA, PathB}

\* What the staged root may hold at a path: nothing, a file, a directory, an
\* entry that cannot be read, a relative symlink, an absolute symlink to /a or
\* to /b.
OverlayEntries ==
    {Absent, RegFile, DirOf(<<>>), Denied, Symlink(<<"x">>), Symlink(PathA), Symlink(PathB)}
HostEntries == {Absent, RegFile}

\* The hosts: /stage/a and /stage/b hold any overlay entry, /stage/x (what the
\* relative symlinks name) and the host's /a and /b are files or missing.
LookupWorlds ==
    { (Join(<<Stage, PathA>>) :> oa) @@ (Join(<<Stage, PathB>>) :> ob)
      @@ (Join(<<Stage, <<"x">>>>) :> ox) @@ (PathA :> ha) @@ (PathB :> hb) :
      oa \in OverlayEntries, ob \in OverlayEntries,
      ox \in HostEntries, ha \in HostEntries, hb \in HostEntries }

\* lookupFile(targetRoot, path) is called: req keeps the path it was called with.
LookupInit ==
    /\ m = NewManifest(EmptyStr)
    /\ last = NoCall
    /\ nops = 0
    /\ fs \in LookupWorlds
    /\ cmd = NewMkfsCommand
    /\ \E t \in TargetRoots, p \in LookupPaths :
          lk = [pc |-> "call", targetRoot |-> t, req |-> p, path |-> p,
                cur |-> p, err |-> "nil"]

\* if targetRoot != "" { ... currentPath := path; for { ... } }
LookupEnter ==
    /\ lk.pc = "call"
    /\ lk' = [lk EXCEPT !.pc = IF lk.targetRoot # EmptyStr THEN "loop" ELSE "host"]
    /\ UNCHANGED <<m, fs, last, nops, cmd>>

\* One pass of the loop.
LookupPass ==
    /\ lk.pc = "loop"
    /\ \E r \in {LookupIter(fs, lk.targetRoot, lk.path, lk.cur)} :
          lk' = [lk EXCEPT !.pc = IF r.pc = "return" THEN "done"
                                  ELSE IF r.pc = "break" THEN "host" ELSE "loop",
                           !.path = r.path, !.cur = r.cur, !.err = r.err]
    /\ UNCHANGED <<m, fs, last, nops, cmd>>

\* _, err := os.Stat(path); return path, err
LookupStat ==
    /\ lk.pc = "host"
    /\ \E r \in {LookupHost(fs, lk.path)} :
          lk' = [lk EXCEPT !.pc = "done", !.path = r.path, !.err = r.err]
    /\ UNCHANGED <<m, fs, last, nops, cmd>>

LookupNext ==
    \/ LookupEnter
    \/ LookupPass
    \/ LookupStat

SpecLookup == LookupInit /\ [][LookupNext]_vars

\* The calls of lookupFile where every pass that can be made is made in the
\* end: the process is not stopped in the middle of the loop.
SpecLookupFair == SpecLookup /\ WF_vars(LookupNext)

-----------------------------------------------------------------------------
(* SetFileSystemSize, called any number of times on a new MkfsCommand *)

SizeInit ==
    /\ m = NewManifest(EmptyStr)
    /\ fs = HostFS
    /\ last = NoCall
    /\ nops = 0
    /\ lk = LkIdle
    /\ cmd = NewMkfsCommand

CallSetFileSystemSize ==
    /\ \E size \in SizeStrings :
          \E r \in {SetFileSystemSize(cmd.size, size)} :
             cmd' = [size |-> r.size, arg |-> size, res |-> r.res, err |-> r.err,
                     old |-> cmd.size]
    /\ UNCHANGED <<m, fs, last, nops, lk>>

SizeNext == CallSetFileSystemSize

SpecSize == SizeInit /\ [][SizeNext]_vars

-----------------------------------------------------------------------------
(* How the code reads the root tree *)

None == [k |-> "none", v |-> <<>>]

RECURSIVE KeysAt(_, _)
\* node = node[parts[i]] for every part: the walk of FileExists, AddFileTo,
\* AddLink and the walkers below the children of the root.
KeysAt(node, parts) ==
    IF parts = <<>> THEN node
    ELSE IF IsMap(node) /\ Has(node, Head(parts))
    THEN KeysAt(node.v[Head(parts)], Tail(parts))
    ELSE None

\* The node FileExists, AddFile and AddLink find at the virtual path parts.
ByKeys(root, parts) ==
    IF Has(root, "children") /\ parts # <<>>
    THEN KeysAt(root.v["children"], parts) ELSE None

RECURSIVE ByChildren(_, _)
\* The node MkDir, MkDirPath and AddLibrary find at the virtual path parts:
\* GetChildren(node)[parts[i]] for every part (as TestAddLibs reads the tree).
ByChildren(node, parts) ==
    IF parts = <<>> THEN node
    ELSE IF /\ IsMap(node) /\ Has(node, "children") /\ IsMap(node.v["children"])
            /\ Has(node.v["children"], Head(parts))
    THEN ByChildren(node.v["children"].v[Head(parts)], Tail(parts))
    ELSE None

\* Directory, File or Link
NodeKind(x) ==
    IF x.k = "map" THEN "Directory"
    ELSE IF x.k = "string" THEN "File"
    ELSE IF x.k = "link" THEN "Link"
    ELSE "none"

\* The kinds of node the code finds at a virtual path, by either walk.
KindsAt(root, parts) ==
    {NodeKind(ByKeys(root, parts)), NodeKind(ByChildren(root, parts))} \ {"none"}

Prefixes(parts) == {SubSeq(parts, 1, i) : i \in 1..Len(parts)}
ProperPrefixes(parts) == {SubSeq(parts, 1, i) : i \in 1..(Len(parts) - 1)}

\* The virtual paths the calls of this model name, with their prefixes.
VirtualPaths ==
    UNION {Prefixes(FieldsFunc(p)) :
           p \in FilePaths \cup LinkPaths \cup LibraryPaths \cup MountPaths
                 \cup {App, DataF, DataL, DataBad}}

\* The last call resolved its host source.
Resolved(c) == lookupFile(fs, m.targetRoot, c.hp).err = "nil"

-----------------------------------------------------------------------------
(* The claims *)

\* C1: after any sequence of builder calls every virtual path addresses at
\* most one node, the same one whichever operation walks to it: the walk by
\* keys (AddFile, AddLink, the walkers, FileExists) and the walk by children
\* (MkDir, AddMount, AddLibrary) find the same kind of node, or both none.
C1_OnePathOneNode ==
    \A parts \in VirtualPaths :
        NodeKind(ByKeys(m.root, parts)) = NodeKind(ByChildren(m.root, parts))

\* The virtual paths of the files and links a walk of dir inserts.
WalkedLeaves(dir, rel) ==
    {IF rel THEN VmPathRel(h, dir) ELSE VmPathAbs(h) :
     h \in {x \in {WalkOrder(fs, dir)[i] : i \in 1..Len(WalkOrder(fs, dir))} :
            \/ Entry(fs, x).k = "file"
            \/ Entry(fs, x).k = "symlink" /\ Stat(fs, x).err = "nil"}}

\* Virtual paths no call of this model inserts at.
NeverInserted == {LibChildren, Data}

\* C2: right after a successful file or link insertion at P (AddFile, AddLink,
\* AddLibrary, AddUserProgram, a file or link of a walked directory)
\* FileExists(P) is true, and FileExists(P) is false for a path never inserted.
C2_FileExistsAfterInsert ==
    /\ (/\ last.op \in {"AddFile", "AddLink", "AddLibrary", "AddUserProgram"}
        /\ last.res = "ok"
        /\ Resolved(last))
       => FileExists(m, last.vp).val
    /\ (last.op \in {"AddDirectory", "AddRelativeDirectory"} /\ last.res = "ok")
       => \A P \in WalkedLeaves(last.hp, last.op = "AddRelativeDirectory") :
             FileExists(m, P).val
    /\ \A P \in NeverInserted : ~FileExists(m, P).val

\* C3: AddFile, and AddLink, called again with the same virtual path and host
\* source right after it succeeded, succeeds, leaves the tree as it is and
\* prints no warning.
C3_SamePairIdempotent ==
    [][(/\ last.op \in {"AddFile", "AddLink"}
        /\ last.res = "ok"
        /\ nops' = nops + 1
        /\ last'.op = last.op /\ last'.vp = last.vp /\ last'.hp = last.hp)
       => (last'.res = "ok" /\ last'.out = <<>> /\ m' = m)]_vars

\* What AddFile or AddLink (op) stores for hostpath.
LeafOf(op, hostpath) ==
    IF op = "AddLink" THEN LinkVal(Entry(fs, hostpath).t) ELSE StringVal(hostpath)

\* C4: AddFile or AddLink at a path that holds a File or a Link of another
\* host source or target overwrites it: the node holds the new source, one
\* warning is printed, the call returns no error and the process goes on.
C4_LastWriteWins ==
    [][(/\ nops' = nops + 1
        /\ last'.op \in {"AddFile", "AddLink"}
        /\ lookupFile(fs, m.targetRoot, last'.hp).err = "nil"
        /\ last'.op = "AddLink" => Entry(fs, last'.hp).k = "symlink"
        /\ ByKeys(m.root, FieldsFunc(last'.vp)).k \in {"string", "link"}
        /\ ByKeys(m.root, FieldsFunc(last'.vp)) # LeafOf(last'.op, last'.hp)
        /\ ByKeys(m.root, FieldsFunc(last'.vp)) # StringVal(last'.hp))
       => (/\ last'.res = "ok"
           /\ last'.out = <<"warning: overwriting">>
           /\ ByKeys(m'.root, FieldsFunc(last'.vp)) = LeafOf(last'.op, last'.hp))]_vars

\* The virtual paths at which the call c inserts a File or a Link.
LeafPaths(c) ==
    IF c.op \in {"AddFile", "AddLink", "AddLibrary", "AddUserProgram"}
    THEN {FieldsFunc(c.vp)}
    ELSE {}

\* The virtual paths at which the call c makes, or walks through, a Directory.
DirPaths(c) ==
    IF c.op = "AddMount" THEN Prefixes(FieldsFunc(c.vp))
    ELSE IF c.op \in {"AddFile", "AddLink", "AddLibrary", "AddUserProgram"}
    THEN ProperPrefixes(FieldsFunc(c.vp))
    ELSE IF c.op \in {"AddDirectory", "AddRelativeDirectory"}
    THEN {FieldsFunc(IF c.op = "AddRelativeDirectory" THEN VmPathRel(h, c.hp)
                     ELSE VmPathAbs(h)) :
          h \in {x \in {WalkOrder(fs, c.hp)[i] : i \in 1..Len(WalkOrder(fs, c.hp))} :
                 Entry(fs, x).k = "dir"}}
    ELSE {}

\* The node at parts is the same in r1 and r2, by both walks.
SameNode(r1, r2, parts) ==
    /\ ByKeys(r1, parts) = ByKeys(r2, parts)
    /\ ByChildren(r1, parts) = ByChildren(r2, parts)

\* C5: a File or Link inserted where a Directory is, and a Directory made
\* where a File or Link is, never ends in a successful return, and the node
\* that was there is left as it was.
C5_KindConflict ==
    [][(nops' = nops + 1)
       => (/\ \A P \in LeafPaths(last') :
                 "Directory" \in KindsAt(m.root, P)
                 => (last'.res # "ok" /\ SameNode(m.root, m'.root, P))
           /\ \A P \in DirPaths(last') :
                 KindsAt(m.root, P) \cap {"File", "Link"} # {}
                 => (last'.res # "ok" /\ SameNode(m.root, m'.root, P)))]_vars

\* C6: AddLibrary(/s1/.../sn) on an empty Manifest, with a host path that
\* resolves, leaves root -> children[s1] -> ... -> children[sn], every node
\* before the last a Directory and the last a File backed by the host path.
C6_AddLibraryChain ==
    (/\ nops = 1
     /\ last.op = "AddLibrary"
     /\ last.res = "ok"
     /\ Resolved(last))
    => (/\ \A parts \in ProperPrefixes(FieldsFunc(last.hp)) :
              NodeKind(ByChildren(m.root, parts)) = "Directory"
        /\ ByChildren(m.root, FieldsFunc(last.hp)) = StringVal(last.hp))

\* The library /lib/x86/libc was added to an empty Manifest.
C6_Witness ==
    /\ nops = 1
    /\ last.op = "AddLibrary"
    /\ last.res = "ok"
    /\ last.hp = LibC
    /\ Resolved(last)

\* The program key of the root, or none.
ProgramOf(mm) == IF Has(mm.root, "program") THEN mm.root.v["program"] ELSE None

\* C7: AddUserProgram(p) that returns has set program to "/" + p without its
\* leading "." and "/" segments, has inserted a File backed by p at that
\* virtual path, and FileExists of it is true; when the insertion fails the
\* process is aborted and program is not set.
C7_AddUserProgram ==
    [][(nops' = nops + 1 /\ last'.op = "AddUserProgram")
       => IF last'.res = "ok"
          THEN /\ ProgramOf(m') = StringVal(ProgramPath(last'.hp))
               /\ last'.hp = DotApp => ProgramOf(m') = StringVal(App)
               /\ last'.hp = BinLs => ProgramOf(m') = StringVal(BinLs)
               /\ ByKeys(m'.root, FieldsFunc(ProgramOf(m').v)) = StringVal(last'.hp)
               /\ FileExists(m', ProgramOf(m').v).val
          ELSE /\ last'.res \in {"exit", "panic"}
               /\ ProgramOf(m') = ProgramOf(m)]_vars

\* AddUserProgram("./app") has returned.
C7_Witness ==
    /\ last.op = "AddUserProgram"
    /\ last.res = "ok"
    /\ last.hp = DotApp
    /\ ProgramOf(m) = StringVal(App)

\* The environment map of the root, empty when the key is not there.
EnvOf(mm) ==
    IF Has(mm.root, "environment") THEN mm.root.v["environment"].v ELSE NoKeys

\* C8: every AddEnvironmentVariable(name, value) leaves the environment map
\* with the names it had and name, name mapped to value and every other name
\* to the value it had: after a sequence of calls the map holds the last value
\* of every name given and no other key.
C8_Environment ==
    [][(nops' = nops + 1 /\ last'.op = "AddEnvironmentVariable")
       => (/\ last'.res = "ok"
           /\ DOMAIN EnvOf(m') = DOMAIN EnvOf(m) \cup {last'.name}
           /\ EnvOf(m')[last'.name] = last'.value
           /\ \A n \in DOMAIN EnvOf(m) \ {last'.name} : EnvOf(m')[n] = EnvOf(m)[n])]_vars

\* Two calls, both AddEnvironmentVariable with the name var1, the second with
\* value2: no other call leaves the root with the environment key alone.
C8_Witness ==
    /\ nops = 2
    /\ last.op = "AddEnvironmentVariable"
    /\ last.value = "value2"
    /\ DOMAIN m.root.v = {"environment"}
    /\ m.boot = EmptyMap
    /\ DOMAIN EnvOf(m) = {"var1"}
    /\ EnvOf(m)["var1"] = "value2"

\* The sequence at key of the root, empty when the key is not there.
SliceOf(mm, key) == IF Has(mm.root, key) THEN mm.root.v[key].v ELSE <<>>

\* The key AddArgument or AddNoTrace appends to.
SliceKey(op) == IF op = "AddArgument" THEN "arguments" ELSE "notrace"

\* C9: every AddArgument(v) and AddNoTrace(v) appends v to its sequence and
\* changes nothing else of it: after n calls the sequence is exactly
\* v1, ..., vn, of length n.
C9_AppendOnly ==
    [][(/\ nops' = nops + 1
        /\ last'.op \in {"AddArgument", "AddNoTrace"}
        /\ Has(m.root, SliceKey(last'.op)) => m.root.v[SliceKey(last'.op)].k = "slice")
       => (/\ last'.res = "ok"
           /\ SliceOf(m', SliceKey(last'.op))
                 = Append(SliceOf(m, SliceKey(last'.op)), last'.value))]_vars

\* C10: with a target root T, a pass of lookupFile that finds a non-symlink at
\* T/P returns T/P; one that finds a relative symlink leaves the loop and T/P
\* itself is what the lookup returns; one that finds an absolute symlink to Q
\* goes on to probe T/Q.  The first pass probes the path asked for.
C10_OverlayLookup ==
    [][/\ (lk.pc = "call" /\ lk.targetRoot # EmptyStr)
          => (lk'.pc = "loop" /\ lk'.cur = lk.req)
       /\ (lk.pc = "loop" /\ Entry(fs, Join(<<lk.targetRoot, lk.cur>>)).k \in {"file", "dir"})
          => (/\ lk'.pc = "done"
              /\ lk'.path = Join(<<lk.targetRoot, lk.cur>>)
              /\ lk'.err = "nil")
       /\ (/\ lk.pc = "loop"
           /\ Entry(fs, Join(<<lk.targetRoot, lk.cur>>)).k = "symlink"
           /\ ~IsAbs(Entry(fs, Join(<<lk.targetRoot, lk.cur>>)).t))
          => (lk'.pc = "host" /\ lk'.path = Join(<<lk.targetRoot, lk.cur>>))
       /\ (lk.pc = "host" /\ lk.targetRoot # EmptyStr)
          => (lk'.pc = "done" /\ lk'.path = lk.path)
       /\ (/\ lk.pc = "loop"
           /\ Entry(fs, Join(<<lk.targetRoot, lk.cur>>)).k = "symlink"
           /\ IsAbs(Entry(fs, Join(<<lk.targetRoot, lk.cur>>)).t))
          => (/\ lk'.pc = "loop"
              /\ lk'.cur = Entry(fs, Join(<<lk.targetRoot, lk.cur>>)).t)]_vars

\* The lookup of /a found an absolute symlink to /b under the target root and
\* returned the file /stage/b.
C10_Witness ==
    /\ lk.pc = "done"
    /\ lk.req = PathA
    /\ lk.cur = PathB
    /\ lk.path = Join(<<Stage, PathB>>)
    /\ lk.err = "nil"

\* q is a decimal number: one or more of the digits 0 to 9.
IsDecimal(q) ==
    q # <<>> /\ \A i \in 1..Len(q) : \E d \in 1..10 : AsciiDigits[d] = q[i]

\* The power of 1024 that a unit letter stands for, 0 for any other rune.
LetterPower(c) ==
    IF c \in {"k", "K"} THEN 1
    ELSE IF c \in {"m", "M"} THEN 2
    ELSE IF c \in {"g", "G"} THEN 3
    ELSE 0

\* The int64 x is the natural number n.
IsNat(x, n) == FitsInt64(n) /\ x = Int64Of(n)

\* C11: SetFileSystemSize of a decimal number n sets the size to n, of n
\* followed by one letter k, m or g, of either case, to n*1024, n*1024^2 or
\* n*1024^3, and fails with an error for every other string.
C11_SizeParsed ==
    cmd.res # "new"
    => IF IsDecimal(cmd.arg)
       THEN cmd.res = "ok" /\ IsNat(cmd.size, NatOfDigits(cmd.arg, <<>>))
       ELSE IF /\ Len(cmd.arg) >= 2
               /\ IsDecimal(SubSeq(cmd.arg, 1, Len(cmd.arg) - 1))
               /\ LetterPower(cmd.arg[Len(cmd.arg)]) > 0
       THEN /\ cmd.res = "ok"
            /\ IsNat(cmd.size,
                     Times1024(NatOfDigits(SubSeq(cmd.arg, 1, Len(cmd.arg) - 1), <<>>),
                               LetterPower(cmd.arg[Len(cmd.arg)])))
       ELSE cmd.res = "error"

\* C12: FileExists is a pure query: it returns, true exactly when the node at
\* the path is a File, and it creates no node and changes nothing of the
\* Manifest.
C12_FileExistsPure ==
    [][(nops' = nops + 1 /\ last'.op = "FileExists")
       => (/\ last'.res = "ok"
           /\ m' = m
           /\ last'.val <=> NodeKind(ByKeys(m.root, FieldsFunc(last'.vp))) = "File")]_vars

RECURSIVE ChainCyclic(_, _, _)
\* The absolute symlinks read under the target root t from the path cur come
\* back to a path of seen or to one read later.
ChainCyclic(t, cur, seen) ==
    IF cur \in seen THEN TRUE
    ELSE IF /\ Entry(fs, Join(<<t, cur>>)).k = "symlink"
            /\ IsAbs(Entry(fs, Join(<<t, cur>>)).t)
    THEN ChainCyclic(t, Entry(fs, Join(<<t, cur>>)).t, seen \cup {cur})
    ELSE FALSE

\* The lookup in progress has a target root and a cyclic chain of absolute
\* symlinks from the path asked for.
CyclicChain == lk.targetRoot # EmptyStr /\ ChainCyclic(lk.targetRoot, lk.req, {})

\* C13: lookupFile ends whenever the chain of absolute symlinks from the path
\* asked for is acyclic, and, having no cycle guard, never ends when that
\* chain is cyclic.
C13_LoopTermination ==
    /\ [](~CyclicChain => <>(lk.pc = "done"))
    /\ [](CyclicChain => lk.pc # "done")

\* The loop goes round a cycle of two absolute symlinks.
C13_Witness ==
    /\ CyclicChain
    /\ lk.pc = "loop"
    /\ lk.cur # lk.req

\* C14: with an empty target root the lookup goes to the host at once (the
\* target root is never read) and returns the path asked for, with no error
\* if the host has it and a not-exist error if not; with a target root, a
\* pass that finds nothing at the path it probes leaves the loop with the
\* path asked for, which is then looked up on the host in the same way.
C14_HostFallback ==
    [][/\ (lk.pc = "call" /\ lk.targetRoot = EmptyStr)
          => (lk'.pc = "host" /\ lk'.path = lk.req)
       /\ (lk.pc = "loop" /\ Entry(fs, Join(<<lk.targetRoot, lk.cur>>)).k = "absent")
          => (lk'.pc = "host" /\ lk'.path = lk.req)
       /\ (lk.pc = "host" /\ lk.path = lk.req)
          => (/\ lk'.pc = "done"
              /\ lk'.path = lk.req
              /\ lk'.err = IF Entry(fs, lk.req).k = "absent" THEN "ENOENT" ELSE "nil")]_vars

\* The lookup of /a followed an absolute symlink to /b, found no /b under the
\* target root and returned /a, which the host has.
C14_Witness ==
    /\ lk.pc = "done"
    /\ lk.targetRoot = Stage
    /\ lk.req = PathA
    /\ lk.cur = PathB
    /\ lk.path = PathA
    /\ lk.err = "nil"
    /\ Entry(fs, Join(<<Stage, PathB>>)).k = "absent"

\* The virtual path the walk c maps the host path h to.
WalkVmPath(c, h) ==
    FieldsFunc(IF c.op = "AddRelativeDirectory" THEN VmPathRel(h, c.hp) ELSE VmPathAbs(h))

\* The places, in the order of the walk c, of the host directories that map
\* to a virtual path with a File or a Link of root at it or at a prefix of it.
WalkConflicts(c, root) ==
    {i \in 1..Len(WalkOrder(fs, c.hp)) :
        /\ Entry(fs, WalkOrder(fs, c.hp)[i]).k = "dir"
        /\ \E Q \in Prefixes(WalkVmPath(c, WalkOrder(fs, c.hp)[i])) :
              ByKeys(root, Q).k \in {"string", "link"}}

\* C15: AddDirectory or AddRelativeDirectory that walks to a host directory
\* whose virtual path, or a prefix of it, holds a File or a Link returns an
\* error to its caller (the process goes on), leaves that File or Link in
\* place, and keeps the files it inserted before.
C15_WalkConflict ==
    [][(/\ nops' = nops + 1
        /\ last'.op \in {"AddDirectory", "AddRelativeDirectory"}
        /\ WalkConflicts(last', m.root) # {})
       => (/\ last'.res = "error"
           /\ \A i \in WalkConflicts(last', m.root) :
                 \A Q \in Prefixes(WalkVmPath(last', WalkOrder(fs, last'.hp)[i])) :
                    ByKeys(m.root, Q).k \in {"string", "link"}
                    => ByKeys(m'.root, Q) = ByKeys(m.root, Q)
           /\ \A j \in 1..Len(WalkOrder(fs, last'.hp)) :
                 (/\ \A i \in WalkConflicts(last', m.root) : j < i
                  /\ Entry(fs, WalkOrder(fs, last'.hp)[j]).k = "file")
                 => ByKeys(m'.root, WalkVmPath(last', WalkOrder(fs, last'.hp)[j]))
                       = StringVal(WalkOrder(fs, last'.hp)[j]))]_vars

\* The mounts map of the root, empty when the key is not there.
MountsOf(mm) == IF Has(mm.root, "mounts") THEN mm.root.v["mounts"].v ELSE NoKeys

\* C16: AddMount(label, path), on a chain without a File or a Link, leaves a
\* Directory at every prefix of path and maps label to path, the other labels
\* as they were; a Directory that was at a prefix, whichever operation made
\* it, is the Directory of the chain.
C16_AddMount ==
    [][(/\ nops' = nops + 1
        /\ last'.op = "AddMount"
        /\ Has(m.root, "mounts") => m.root.v["mounts"].k = "strmap"
        /\ Has(m.root, "children") => IsMap(m.root.v["children"])
        /\ \A P \in Prefixes(FieldsFunc(last'.vp)) :
              KindsAt(m.root, P) \cap {"File", "Link"} = {})
       => (/\ last'.res = "ok"
           /\ DOMAIN MountsOf(m') = DOMAIN MountsOf(m) \cup {last'.name}
           /\ MountsOf(m')[last'.name] = last'.vp
           /\ \A l \in DOMAIN MountsOf(m) \ {last'.name} : MountsOf(m')[l] = MountsOf(m)[l]
           /\ \A P \in Prefixes(FieldsFunc(last'.vp)) :
                 /\ NodeKind(ByChildren(m'.root, P)) = "Directory"
                 /\ NodeKind(ByKeys(m.root, P)) = "Directory"
                    => ByChildren(m'.root, P) = ByKeys(m'.root, P))]_vars

\* The keys of the root other than key have in r2 the values they have in r1.
SameButKey(r1, r2, key) ==
    /\ DOMAIN r1.v \ {key} = DOMAIN r2.v \ {key}
    /\ \A k \in DOMAIN r1.v \ {key} : r2.v[k] = r1.v[k]

\* C17: AddKernel changes nothing of the root and, with a kernel that
\* resolves, leaves the File kernel right under boot; AddKlibs changes of the
\* root the klibs marker only and, with a host directory that resolves,
\* leaves the Directory klib under boot with one File for every klib named;
\* every other operation leaves boot as it is.
C17_BootApart ==
    [][(nops' = nops + 1)
       => (/\ last'.op = "AddKernel"
              => (/\ m'.root = m.root
                  /\ (last'.res = "ok" /\ lookupFile(fs, m.targetRoot, last'.hp).err = "nil")
                     => ByChildren(m'.boot, <<"kernel">>) = StringVal(last'.hp))
           /\ last'.op = "AddKlibs"
              => (/\ SameButKey(m.root, m'.root, "klibs")
                  /\ (last'.res = "ok" /\ lookupFile(fs, m.targetRoot, last'.hp).err = "nil")
                     => (/\ NodeKind(ByChildren(m'.boot, <<"klib">>)) = "Directory"
                         /\ \A i \in 1..Len(last'.vp) :
                               NodeKind(ByChildren(m'.boot, <<"klib", last'.vp[i]>>)) = "File"
                         /\ m'.root.v["klibs"] = StringVal(<<"bootfs">>)))
           /\ last'.op \notin {"AddKernel", "AddKlibs"} => m'.boot = m.boot)]_vars

\* The boot tree holds the kernel and the klibs, the root tree the program.
C17_Witness ==
    /\ last.op = "AddKlibs"
    /\ last.res = "ok"
    /\ ByChildren(m.boot, <<"kernel">>) = StringVal(BinLs)
    /\ NodeKind(ByChildren(m.boot, <<"klib", "tls">>)) = "File"
    /\ NodeKind(ByKeys(m.root, FieldsFunc(BinLs))) = "File"

\* The leaves the call c is to insert, as the operation of c reads them in mm.
LeavesOf(c, mm) ==
    IF c.op \in {"AddFile", "AddLink", "AddUserProgram"}
    THEN <<ByKeys(mm.root, FieldsFunc(c.vp))>>
    ELSE IF c.op = "AddLibrary" THEN <<ByChildren(mm.root, FieldsFunc(c.vp))>>
    ELSE IF c.op = "AddKernel" THEN <<ByChildren(mm.boot, <<"kernel">>)>>
    ELSE [i \in 1..Len(c.vp) |-> ByChildren(mm.boot, <<"klib", c.vp[i]>>)]

\* The klibs marker of the root, or none.
KlibsOf(mm) == IF Has(mm.root, "klibs") THEN mm.root.v["klibs"] ELSE None

\* C18: an operation that inserts a file and whose host source fails to
\* resolve with an error that is no not-exist error does not return as a
\* success: the error reaches the caller, no leaf is inserted and AddKlibs
\* does not set the klibs marker.
C18_ErrorReachesCaller ==
    [][(/\ nops' = nops + 1
        /\ last'.op \in {"AddFile", "AddLink", "AddLibrary", "AddKernel", "AddKlibs",
                         "AddUserProgram"}
        /\ lookupFile(fs, m.targetRoot, last'.hp).err \notin {"nil", "ENOENT"})
       => (/\ last'.res # "ok"
           /\ LeavesOf(last', m') = LeavesOf(last', m)
           /\ KlibsOf(m') = KlibsOf(m))]_vars

\* The keys of the root that hold the filesystem tree and the metadata.
MetadataKeys ==
    {"children", "program", "mounts", "environment", "arguments", "notrace", "klibs"}

\* The keys of MetadataKeys that the accumulator op is to change.
OwnKeys(op) ==
    IF op = "AddEnvironmentVariable" THEN {"environment"}
    ELSE IF op = "AddArgument" THEN {"arguments"}
    ELSE IF op = "AddNoTrace" THEN {"notrace"}
    ELSE {}

\* The value of the root at key, or none.
RootKey(mm, key) == IF Has(mm.root, key) THEN mm.root.v[key] ELSE None

\* C19: AddEnvironmentVariable, AddArgument, AddNoTrace, AddDebugFlag and
\* AddNetworkConfig, with any argument, leave the filesystem tree of the
\* root, the boot tree and every metadata field but their own as they are.
C19_AccumulatorsApart ==
    [][(/\ nops' = nops + 1
        /\ last'.op \in {"AddEnvironmentVariable", "AddArgument", "AddNoTrace",
                         "AddDebugFlag", "AddNetworkConfig"})
       => (/\ m'.boot = m.boot
           /\ \A key \in MetadataKeys \ OwnKeys(last'.op) :
                 RootKey(m', key) = RootKey(m, key))]_vars

\* The prefixes of the virtual path of the call c, the path itself left out,
\* that hold a File or a Link in root.
LeafPrefixes(c, root) ==
    {P \in ProperPrefixes(FieldsFunc(c.vp)) : KindsAt(root, P) \cap {"File", "Link"} # {}}

\* C20: AddFile, AddLink, AddLibrary or AddMount at a virtual path with a
\* File or a Link at an intermediate segment ends in a reported conflict (an
\* error returned, or a message and exit), not in a panic; that File or Link
\* stays what it is and no node is added beneath it.
C20_LeafOnTheWay ==
    [][(/\ nops' = nops + 1
        /\ last'.op \in {"AddFile", "AddLink", "AddLibrary", "AddMount"}
        /\ LeafPrefixes(last', m.root) # {})
       => (/\ last'.res \in {"error", "exit"}
           /\ \A P \in LeafPrefixes(last', m.root) :
                 \A Q \in Prefixes(FieldsFunc(last'.vp)) :
                    (Len(Q) >= Len(P) /\ SubSeq(Q, 1, Len(P)) = P)
                    => SameNode(m.root, m'.root, Q))]_vars

====
